---- MODULE Spec2Model ----
(***************************************************************************)
(* The agent control loop of src/mainloop.py (class ClaudeCodeAgent) as a  *)
(* state machine.                                                          *)
(*                                                                         *)
(* agents is the call stack of agents: agents[1] is the root agent and     *)
(* agents[k+1] is the sub-agent that agents[k] is awaiting inside          *)
(* _spawn_sub_agent_for_task.  Execution is one sequential flow, so only   *)
(* the last agent of the stack takes steps.  Every await of main_loop is a *)
(* position (pc) of the agent.  A Python exception is the position         *)
(* "raised"; it unwinds the stack one agent per step.                      *)
(*                                                                         *)
(* The methods the class calls and never defines (_call_api,               *)
(* _get_model_response, _estimate_tokens, _extract_final_result, the       *)
(* reminder builders) are the external collaborators of the spec: their    *)
(* results are inputs drawn from small sets.                               *)
(***************************************************************************)
EXTENDS Integers, Sequences, FiniteSets, TLC

VARIABLES
    agents,      \* call stack of agent records (root first)
    store,       \* the files of ~/.claude/todos/ : file name -> file
    dir_exists,  \* whether ~/.claude/todos/ exists
    clock,       \* the last value datetime.now() returned, in seconds
    calls        \* how many tool calls the model's responses have held so far

vars == <<agents, store, dir_exists, clock, calls>>

-----------------------------------------------------------------------------
(* Bounds of the model *)

\* tool calls the model's responses may hold in all, over all agents (the
\* code has no limit)
MaxToolCalls == 3
\* seconds the clock may advance
MaxTicks == 1
\* the second at which the session starts
FirstSecond == 8
\* longest todo list (SpecTodo) and message list (SpecCompact) drawn as input
MaxTodos == 2
MaxMsgs == 3

-----------------------------------------------------------------------------
(* Program constants and values *)

MAX_SUB_AGENT_DEPTH == 1

COMPACTION_THRESHOLD == 100000

OPUS == "claude-opus-4-1"
SONNET == "claude-sonnet-4"
HAIKU == "claude-3-5-haiku"

\* Python's None where a text is expected
NoneVal == "<None>"
\* a key that a JSON object does not have
Absent == "<absent>"

Message(role, content, tool_results) ==
    [role |-> role, content |-> content, tool_results |-> tool_results]

TodoItem(id, description, completed) ==
    [id |-> id, description |-> description, completed |-> completed]

\* tool_call['tool']: the strings main_loop compares with, and ToolType members
ToolEDIT == "ToolType.EDIT"
Tools == {"Task", "TodoWrite", ToolEDIT}

ToolCall(tool, task) == [tool |-> tool, params |-> [task |-> task]]

\* inputs
UserInputs == {"fix bug", "long paste"}
TaskDescriptions == {"find all TODOs"}
Descriptions == {"write tests", "fix lint"}

ToolCalls ==
    {ToolCall("Task", t) : t \in TaskDescriptions}
        \cup {ToolCall(t, "") : t \in Tools \ {"Task"}}

SeqsUpTo(S, n) == UNION {[1..k -> S] : k \in 0..n}

\* what _get_model_response can return (ModelClient.invoke of the spec)
Responses ==
    {[tool_calls |-> s, completion_signal |-> b] :
        s \in SeqsUpTo(ToolCalls, MaxToolCalls), b \in BOOLEAN}

\* what _call_api can return: a text, or None when the call fails
ApiTexts == {"ok"}
ApiResults == ApiTexts \cup {NoneVal}

-----------------------------------------------------------------------------
(* Todo store: ~/.claude/todos/ *)

\* strftime('%Y%m%d_%H%M%S'): fixed-width, zero-padded digits (two here)
StrfTime(t) == <<(t \div 10) % 10, t % 10>>

Seconds == (FirstSecond - 1)..(FirstSecond + MaxTicks)
Filenames == {StrfTime(t) : t \in Seconds}

\* Python's str comparison on two file names of equal length
LexLeq(a, b) ==
    \/ a[1] < b[1]
    \/ a[1] = b[1] /\ a[2] <= b[2]

NoFile == [exists |-> FALSE, valid |-> FALSE, data |-> <<>>]
CorruptFile == [exists |-> TRUE, valid |-> FALSE, data |-> <<>>]
JsonFile(data) == [exists |-> TRUE, valid |-> TRUE, data |-> data]

\* os.listdir + endswith('.json')
ListDir(st) == {f \in DOMAIN st : st[f].exists}

\* sorted(todo_files)[-1]
LastOfSorted_first(files) == CHOOSE f \in files : \A g \in files : LexLeq(f, g)
LastOfSorted(files) == CHOOSE f \in files : \A g \in files : LexLeq(g, f)

\* item.get('completed', False)
GetCompleted(item) ==
    IF item.completed = "absent" THEN FALSE ELSE item.completed = "true"

\* the list comprehension of _load_todo_from_json
DecodeTodos(data) ==
    [i \in 1..Len(data) |->
        TodoItem(i - 1, data[i].description, GetCompleted(data[i]))]

\* _load_todo_from_json: the list it returns, or the exception it raises
LoadTodoFromJson(dir, st) ==
    IF ~dir THEN [raised |-> FALSE, value |-> <<>>]
    ELSE IF ListDir(st) = {} THEN [raised |-> FALSE, value |-> <<>>]
    ELSE LET file == st[LastOfSorted(ListDir(st))]
         IN  IF ~file.valid
                 THEN [raised |-> TRUE, value |-> <<>>]   \* json.load fails
             ELSE IF \E i \in 1..Len(file.data) : file.data[i].description = Absent
                 THEN [raised |-> TRUE, value |-> <<>>]   \* KeyError
             ELSE [raised |-> FALSE, value |-> DecodeTodos(file.data)]

\* the todo_data list of _update_todo_json, as json.dump writes it
EncodeTodos(todo_list) ==
    [i \in 1..Len(todo_list) |->
        [description |-> todo_list[i].description,
         completed |-> IF todo_list[i].completed THEN "true" ELSE "false"]]

\* the file name _update_todo_json writes at second t
TodoFilename_stale(t) == StrfTime(FirstSecond - 1)
TodoFilename(t) == StrfTime(t)

\* _update_todo_json: open(filepath, 'w') creates or overwrites
UpdateTodoJson(todo_list, st, t) ==
    [st EXCEPT ![TodoFilename(t)] = JsonFile(EncodeTodos(todo_list))]

-----------------------------------------------------------------------------
(* Context and its pure operations *)

\* _build_system_reminder_start / _build_system_reminder_end
StartReminder == "start_reminder"
EndReminder == "end_reminder"

\* _estimate_tokens, for the contents the model uses
EstimateTokens(content) ==
    CASE content = "long paste" -> 99000
      [] content = StartReminder -> 600
      [] content = EndReminder -> 600
      [] content = "compressed" -> 2000
      [] content = NoneVal -> 0
      [] OTHER -> 10

RECURSIVE SumTokens(_)
SumTokens(msgs) ==
    IF msgs = <<>> THEN 0
    ELSE EstimateTokens(Head(msgs).content) + SumTokens(Tail(msgs))

\* _context_needs_compaction
ContextNeedsCompaction(msgs) == SumTokens(msgs) > COMPACTION_THRESHOLD

\* _inject_system_reminders: insert(0, start) then append(end)
InjectSystemReminders(msgs) ==
    Append(<<Message("system", StartReminder, <<>>)>> \o msgs,
           Message("system", EndReminder, <<>>))

\* _summarize_context_with_haiku keeps the recent messages: not what
\* _compact_context does
CompactContext_keeprecent(msgs, compressed) ==
    <<Message("system", compressed, <<>>)>> \o msgs

\* _compact_context: the new value of context.messages
CompactContext(msgs, compressed) == <<Message("system", compressed, <<>>)>>

\* the model each kind of call is made with: the first argument of _call_api,
\* and for _get_model_response the model main_loop has set before the loop
QuotaModel == HAIKU
TopicModel == HAIKU
CompactionModel == SONNET
\* leaving out line 130 keeps the model of the topic check
ProcessingModel_haiku == HAIKU
ProcessingModel == SONNET

ApiCall(purpose, model) == [purpose |-> purpose, model |-> model]

\* _check_quota: response is not None
QuotaOk_always(response) == TRUE
QuotaOk(response) == response # NoneVal

\* _extract_final_result(sub_agent.context)
ExtractFinalResult(msgs) ==
    IF msgs = <<>> THEN "" ELSE msgs[Len(msgs)].content

\* the Message main_loop appends after _spawn_sub_agent_for_task returns
TaskCompletedMessage(task, final_result) ==
    Message("assistant", "Task completed",
            <<[task |-> task, result |-> final_result]>>)

\* lines 150-156 and 298-301: what the parent's context.messages becomes when
\* the child's main_loop has returned
FoldIntoParent_leak(parent_msgs, child_msgs, task) ==
    Append(parent_msgs \o child_msgs,
           TaskCompletedMessage(task, ExtractFinalResult(child_msgs)))
FoldIntoParent(parent_msgs, child_msgs, task) ==
    Append(parent_msgs, TaskCompletedMessage(task, ExtractFinalResult(child_msgs)))

\* _should_exit (as declared: it takes no response)
ShouldExit(todo_list) ==
    /\ \A i \in 1..Len(todo_list) : todo_list[i].completed
    /\ Len(todo_list) > 0

\* parameters _should_exit declares beside self, and arguments main_loop passes
ShouldExitParams == 0
ShouldExitArgs == 1

\* main_loop's dispatch: which tool calls go through _get_user_permission
IsGated(tool) == tool \notin {"Task", "TodoWrite"}

\* what _get_user_permission can answer: the user's yes or no (the demo body
\* of the method answers yes without asking)
PermissionAnswers == BOOLEAN

\* main_loop line 162: the tool runs iff the permission gate answered yes
MayExecute_always(answer) == TRUE
MayExecute(answer) == answer

-----------------------------------------------------------------------------
(* Agents *)

\* the locals of one main_loop call, and the record of what the call did
RunLocals(input, msgs, todos) ==
    [user_input |-> input,
     quota |-> "unset",        \* the response _check_quota got
     compressed |-> "unset",   \* what the compaction call returned
     loaded |-> <<>>,          \* what _load_todo_from_json returned
     response |-> <<>>,        \* <<r>> once _get_model_response returned r
     idx |-> 0,                \* position in response.tool_calls
     asked |-> {},             \* <<i, answer>>: permission asked for call i
     executed |-> {},          \* i: _execute_tool ran for call i
     api_calls |-> <<>>,       \* the model calls made, each with its model
     trace |-> <<>>,           \* steps of main_loop taken by this call
     msgs0 |-> msgs,           \* context.messages when main_loop was called
     todo0 |-> todos]          \* context.todo_list when main_loop was called

\* __init__ and _initialize_context
NewAgent ==
    [depth |-> 0, pc |-> "idle", messages |-> <<>>, todo_list |-> <<>>,
     current_model |-> SONNET]
        @@ RunLocals("", <<>>, <<>>)

\* _spawn_sub_agent_for_task, up to the call of sub_agent.main_loop
SubAgentDepth(parent_depth) == parent_depth + 1

SpawnSubAgent(parent, task) ==
    [depth |-> SubAgentDepth(parent.depth), pc |-> "quota",
     messages |-> <<Message("user", task, <<>>)>>, todo_list |-> <<>>,
     current_model |-> SONNET]
        @@ RunLocals(task, <<Message("user", task, <<>>)>>, <<>>)

Top == agents[Len(agents)]
Put(a) == [agents EXCEPT ![Len(agents)] = a]
Step(a, name) == [a EXCEPT !.trace = Append(@, name)]
CallApi(a, purpose, model) ==
    [a EXCEPT !.api_calls = Append(@, ApiCall(purpose, model))]

CurrentCall(a) == a.response[1].tool_calls[a.idx]

-----------------------------------------------------------------------------
(* Specification Spec: the control loop *)

\* files found in ~/.claude/todos/ when the session starts
InitialFiles ==
    {NoFile,
     JsonFile(<<[description |-> "write tests", completed |-> "true"]>>),
     JsonFile(<<[description |-> "write tests", completed |-> "absent"]>>),
     JsonFile(<<[description |-> Absent, completed |-> "true"]>>),
     CorruptFile}

Init ==
    /\ agents = <<NewAgent>>
    /\ \E old \in InitialFiles :
          store = [f \in Filenames |->
                      IF f = StrfTime(FirstSecond - 1) THEN old ELSE NoFile]
    /\ dir_exists \in BOOLEAN
    /\ (\E f \in Filenames : store[f].exists) => dir_exists
    /\ clock = FirstSecond
    /\ calls = 0

\* main() calls main_loop(user_input) on the root agent
MainLoopCall ==
    /\ Len(agents) = 1
    /\ Top.pc = "idle"
    /\ \E input \in UserInputs :
          agents' = Put([depth |-> Top.depth, pc |-> "quota",
                         messages |-> Top.messages,
                         todo_list |-> Top.todo_list,
                         current_model |-> Top.current_model]
                            @@ RunLocals(input, Top.messages, Top.todo_list))
    /\ UNCHANGED <<store, dir_exists, clock, calls>>

\* Step 0: _check_quota; main_loop returns when it is false
CheckQuota ==
    /\ Top.pc = "quota"
    /\ \E response \in ApiResults :
          agents' = Put(Step(
              [CallApi(Top, "quota", QuotaModel)
                  EXCEPT !.current_model = QuotaModel,
                         !.quota = response,
                         !.pc = IF QuotaOk(response) THEN "topic" ELSE "returned"],
              "QUOTA_CHECK"))
    /\ UNCHANGED <<store, dir_exists, clock, calls>>

\* Step 1: _check_new_topic; response.lower() raises on None
CheckNewTopic ==
    /\ Top.pc = "topic"
    /\ \E response \in ApiResults :
          agents' = Put(Step(
              [CallApi(Top, "topic", TopicModel)
                  EXCEPT !.current_model = TopicModel,
                         !.pc = IF response = NoneVal THEN "raised" ELSE "inject"],
              "TOPIC_DETECT"))
    /\ UNCHANGED <<store, dir_exists, clock, calls>>

\* Steps 2 to 4: _inject_system_reminders, append the user message, set the model
PrepareContext ==
    /\ Top.pc = "inject"
    /\ agents' = Put(Step(
          [Top EXCEPT !.messages = Append(InjectSystemReminders(@),
                                          Message("user", Top.user_input, <<>>)),
                      !.current_model = ProcessingModel,
                      !.pc = "loop"],
          "REMINDER_INJECT"))
    /\ UNCHANGED <<store, dir_exists, clock, calls>>

\* loop head: _context_needs_compaction and _compact_context
CompactCheck ==
    /\ Top.pc = "loop"
    /\ IF ContextNeedsCompaction(Top.messages)
       THEN \E compressed \in {"compressed", NoneVal} :
               agents' = Put(Step(
                   [CallApi(Top, "compaction", CompactionModel)
                       EXCEPT !.messages = CompactContext(@, compressed),
                              !.compressed = compressed,
                              !.current_model = CompactionModel,
                              !.pc = "load"],
                   "COMPACT"))
       ELSE agents' = Put(Step([Top EXCEPT !.pc = "load"], "COMPACT_CHECK"))
    /\ UNCHANGED <<store, dir_exists, clock, calls>>

\* _load_todo_from_json; "if todo_list:" keeps the old list when it is empty
LoadTodo ==
    /\ Top.pc = "load"
    /\ LET got == LoadTodoFromJson(dir_exists, store)
       IN  agents' = Put(Step(
               IF got.raised THEN [Top EXCEPT !.pc = "raised"]
               ELSE [Top EXCEPT !.loaded = got.value,
                                !.todo_list = IF got.value # <<>> THEN got.value ELSE @,
                                !.pc = "model"],
               "TODO_SYNC"))
    /\ UNCHANGED <<store, dir_exists, clock, calls>>

\* _get_model_response returns a response
GetModelResponse ==
    /\ Top.pc = "model"
    /\ \E response \in Responses :
          /\ calls + Len(response.tool_calls) <= MaxToolCalls
          /\ calls' = calls + Len(response.tool_calls)
          /\ agents' = Put(Step(
                [CallApi(Top, "processing", Top.current_model)
                    EXCEPT !.response = <<response>>, !.idx = 1, !.pc = "dispatch"],
                "MODEL_CALL"))
    /\ UNCHANGED <<store, dir_exists, clock>>

\* _get_model_response fails: response.tool_calls raises on None
ModelCallFails ==
    /\ Top.pc = "model"
    /\ agents' = Put(Step(
          [CallApi(Top, "processing", Top.current_model) EXCEPT !.pc = "raised"],
          "MODEL_CALL"))
    /\ UNCHANGED <<store, dir_exists, clock, calls>>

InDispatch ==
    /\ Top.pc = "dispatch"
    /\ Top.idx <= Len(Top.response[1].tool_calls)

\* tool_call['tool'] == 'Task': _spawn_sub_agent_for_task builds the child and
\* awaits its main_loop
DispatchTask ==
    /\ InDispatch
    /\ CurrentCall(Top).tool = "Task"
    /\ agents' = Append(Put(Step([Top EXCEPT !.pc = "spawn"], "DISPATCH_TASK")),
                        SpawnSubAgent(Top, CurrentCall(Top).params.task))
    /\ UNCHANGED <<store, dir_exists, clock, calls>>

\* the child's main_loop returned: fold {task, result} into the parent
SubAgentReturn ==
    /\ Len(agents) > 1
    /\ Top.pc = "returned"
    /\ LET parent == agents[Len(agents) - 1]
       IN  agents' = [SubSeq(agents, 1, Len(agents) - 1)
                         EXCEPT ![Len(agents) - 1] =
                             [parent EXCEPT !.messages =
                                                FoldIntoParent(@, Top.messages,
                                                               Top.user_input),
                                            !.idx = @ + 1,
                                            !.pc = "dispatch"]]
    /\ UNCHANGED <<store, dir_exists, clock, calls>>

\* the child's main_loop raised: the exception leaves the parent's main_loop too
SubAgentRaise ==
    /\ Len(agents) > 1
    /\ Top.pc = "raised"
    /\ LET parent == agents[Len(agents) - 1]
       IN  agents' = [SubSeq(agents, 1, Len(agents) - 1)
                         EXCEPT ![Len(agents) - 1] = [parent EXCEPT !.pc = "raised"]]
    /\ UNCHANGED <<store, dir_exists, clock, calls>>

\* tool_call['tool'] == 'TodoWrite': _update_todo_json at datetime.now(), which
\* is the last time read or later
DispatchTodoWrite ==
    /\ InDispatch
    /\ CurrentCall(Top).tool = "TodoWrite"
    /\ \E now \in clock..(FirstSecond + MaxTicks) :
          /\ clock' = now
          /\ store' = UpdateTodoJson(Top.todo_list, store, now)
    /\ dir_exists' = TRUE
    /\ agents' = Put(Step([Top EXCEPT !.idx = @ + 1], "DISPATCH_TODOWRITE"))
    /\ UNCHANGED calls

\* any other tool: _get_user_permission answers, then the if of line 162
GetUserPermission ==
    /\ InDispatch
    /\ IsGated(CurrentCall(Top).tool)
    /\ \E answer \in PermissionAnswers :
          agents' = Put(Step(
              [Top EXCEPT !.asked = @ \cup {<<Top.idx, answer>>},
                          !.pc = IF MayExecute(answer) THEN "execute" ELSE @,
                          !.idx = IF MayExecute(answer) THEN @ ELSE @ + 1],
              "PERMISSION"))
    /\ UNCHANGED <<store, dir_exists, clock, calls>>

\* _execute_tool runs; Message(role=..., tool_results=...) then lacks the
\* required field content and raises TypeError
ExecuteTool ==
    /\ Top.pc = "execute"
    /\ agents' = Put(Step(
          [Top EXCEPT !.executed = @ \cup {Top.idx}, !.pc = "raised"],
          "EXECUTE"))
    /\ UNCHANGED <<store, dir_exists, clock, calls>>

\* the for loop is over
DispatchDone ==
    /\ Top.pc = "dispatch"
    /\ Top.idx > Len(Top.response[1].tool_calls)
    /\ agents' = Put([Top EXCEPT !.pc = "exit_check"])
    /\ UNCHANGED <<store, dir_exists, clock, calls>>

\* "if await self._should_exit(response)": one argument for no parameter
ExitCheck ==
    /\ Top.pc = "exit_check"
    /\ agents' = Put(Step(
          [Top EXCEPT !.pc =
              IF ShouldExitArgs # ShouldExitParams THEN "raised"   \* TypeError
              ELSE IF ShouldExit(Top.todo_list) THEN "summarize"
              ELSE "loop"],
          "EXIT_CHECK"))
    /\ UNCHANGED <<store, dir_exists, clock, calls>>

Next ==
    \/ MainLoopCall
    \/ CheckQuota
    \/ CheckNewTopic
    \/ PrepareContext
    \/ CompactCheck
    \/ LoadTodo
    \/ GetModelResponse
    \/ ModelCallFails
    \/ DispatchTask
    \/ SubAgentReturn
    \/ SubAgentRaise
    \/ DispatchTodoWrite
    \/ GetUserPermission
    \/ ExecuteTool
    \/ DispatchDone
    \/ ExitCheck

Spec == Init /\ [][Next]_vars

-----------------------------------------------------------------------------
(* Properties of the control loop, checked under Spec *)

Range(seq) == {seq[i] : i \in 1..Len(seq)}
Last(seq) == seq[Len(seq)]
Did(a, name) == name \in Range(a.trace)

\* C1: every agent that exists, at any nesting, has
\* sub_agent_depth <= MAX_SUB_AGENT_DEPTH; no agent of depth 2 ever exists.
C1_DepthWithinMax ==
    \A k \in 1..Len(agents) : agents[k].depth <= MAX_SUB_AGENT_DEPTH

C3_QuotaFailureReturns ==
    \A k \in 1..Len(agents) :
        agents[k].quota = NoneVal =>
            /\ agents[k].pc = "returned"
            /\ agents[k].trace = <<"QUOTA_CHECK">>
            /\ agents[k].messages = agents[k].msgs0
            /\ agents[k].todo_list = agents[k].todo0
            /\ k = Len(agents)

C3_Witness ==
    /\ Len(agents) = 1
    /\ agents[1].quota = NoneVal
    /\ agents[1].pc = "returned"
    /\ agents[1].messages = <<>>

\* C4: when the response of an iteration carries the completion signal, the
\* loop stops at the end of that iteration and the agent goes on to
\* summarization, whatever the todo list holds.
C4_CompletionSignalExits ==
    \A k \in 1..Len(agents) :
        (/\ Did(agents[k], "EXIT_CHECK")
         /\ agents[k].response[1].completion_signal)
            => agents[k].pc \in {"summarize", "returned"}

\* positions of an agent that is inside the processing loop
LoopPositions == {"loop", "load", "model", "dispatch", "spawn", "execute", "exit_check"}

\* C5: at the exit check, a non-empty todo list with every item completed
\* ends the loop; an empty list or one with an incomplete item, with no
\* completion signal, does not end it and another iteration begins.
C5_TodoExit ==
    \A k \in 1..Len(agents) :
        Did(agents[k], "EXIT_CHECK") =>
            IF /\ agents[k].todo_list # <<>>
               /\ \A i \in 1..Len(agents[k].todo_list) : agents[k].todo_list[i].completed
            THEN agents[k].pc \notin LoopPositions
            ELSE ~agents[k].response[1].completion_signal
                    => agents[k].pc \in LoopPositions

\* C7: when the compaction call returns no response the control loop aborts
\* and the messages are not replaced by one built from the absent response.
C7_CompactionFailureAborts ==
    \A k \in 1..Len(agents) :
        agents[k].compressed = NoneVal =>
            /\ agents[k].pc = "raised"
            /\ Last(agents[k].trace) = "COMPACT"
            /\ \A i \in 1..Len(agents[k].messages) :
                  agents[k].messages[i].content # NoneVal

\* C10: a tool call other than Task and TodoWrite is executed only after the
\* permission gate was asked about that call and answered yes; a denied call
\* is never executed; the gate is never asked about a Task or TodoWrite call.
C10_PermissionGating ==
    \A k \in 1..Len(agents) :
        LET a == agents[k]
            tool(i) == a.response[1].tool_calls[i].tool
        IN  /\ \A i \in a.executed :
                  /\ tool(i) \notin {"Task", "TodoWrite"}
                  /\ <<i, TRUE>> \in a.asked
                  /\ <<i, FALSE>> \notin a.asked
            /\ \A p \in a.asked : tool(p[1]) \notin {"Task", "TodoWrite"}
            /\ a.pc = "execute" => <<a.idx, TRUE>> \in a.asked

\* C10 witness: a TodoWrite call was dispatched without the gate being asked,
\* then the gate was asked about the edit call, answered yes, and it executed
C10_Witness ==
    \E k \in 1..Len(agents) :
        /\ agents[k].asked = {<<2, TRUE>>}
        /\ agents[k].executed = {2}
        /\ agents[k].response[1].tool_calls[1].tool = "TodoWrite"
        /\ agents[k].response[1].tool_calls[2].tool = ToolEDIT

\* the Messages the dispatch loop appended: main_loop appends no other
\* assistant Message
DispatchMessages(a) == SelectSeq(a.messages, LAMBDA m : m.role = "assistant")
UserMessages(a) == SelectSeq(a.messages, LAMBDA m : m.role = "user")
Denied(a) == {p[1] : p \in {q \in a.asked : ~q[2]}}
\* the Task calls whose result has come back
FoldedTasks(a) ==
    {j \in 1..(a.idx - 1) : a.response[1].tool_calls[j].tool = "Task"}

C12_TaskAtMaxDepthStartsNoChild ==
    \A k \in 1..Len(agents) :
        agents[k].depth >= MAX_SUB_AGENT_DEPTH =>
            /\ ~Did(agents[k], "DISPATCH_TASK")
            /\ k = Len(agents)

\* the phase a step of main_loop belongs to
PhaseOf(step) ==
    CASE step = "QUOTA_CHECK" -> 1
      [] step = "TOPIC_DETECT" -> 2
      [] step = "REMINDER_INJECT" -> 3
      [] step = "SUMMARIZE" -> 5
      [] OTHER -> 4

\* C13: the phases of one run come in the order QUOTA_CHECK, TOPIC_DETECT,
\* REMINDER_INJECT, PROCESSING, SUMMARIZE, each of the four single-step phases
\* at most once, and a run whose exit check found the exit condition true goes
\* on to SUMMARIZE instead of another iteration or an abort
C13_PhaseOrder ==
    \A k \in 1..Len(agents) :
        LET a == agents[k]
            t == a.trace
        IN  /\ \A i, j \in 1..Len(t) :
                   i < j => /\ PhaseOf(t[i]) <= PhaseOf(t[j])
                            /\ PhaseOf(t[i]) = PhaseOf(t[j]) => PhaseOf(t[i]) = 4
            /\ (Did(a, "SUMMARIZE") \/ a.pc = "summarize") => Did(a, "EXIT_CHECK")
            /\ (Did(a, "EXIT_CHECK") /\ ShouldExit(a.todo_list)) =>
                   (Did(a, "SUMMARIZE") \/ a.pc = "summarize")

\* C14 as stated: quota, topic and summary calls are made with HAIKU, and every
\* processing and compaction call is made with OPUS, the highest of the three
C14_ProcessingAtOpus ==
    \A k \in 1..Len(agents) :
        \A i \in 1..Len(agents[k].api_calls) :
            LET c == agents[k].api_calls[i]
            IN  /\ c.purpose \in {"quota", "topic", "summary"} => c.model = HAIKU
                /\ c.purpose \in {"processing", "compaction"} => c.model = OPUS

\* C14: the model of a call is fixed by its purpose: quota and topic calls are
\* made with HAIKU, processing and compaction calls with SONNET, in every
\* iteration and in sub-agents too; no call is made with OPUS
C14_TierTable ==
    \A k \in 1..Len(agents) :
        \A i \in 1..Len(agents[k].api_calls) :
            LET c == agents[k].api_calls[i]
            IN  /\ c.purpose \in {"quota", "topic"} <=> c.model = HAIKU
                /\ c.purpose \in {"processing", "compaction"} <=> c.model = SONNET

\* a sub-agent made its processing call, in a session whose root agent
\* compacted before its own
C14_Witness ==
    /\ Len(agents) = 2
    /\ agents[1].api_calls = <<ApiCall("quota", HAIKU), ApiCall("topic", HAIKU),
                               ApiCall("compaction", SONNET),
                               ApiCall("processing", SONNET)>>
    /\ agents[2].api_calls = <<ApiCall("quota", HAIKU), ApiCall("topic", HAIKU),
                               ApiCall("processing", SONNET)>>

\* the calls that have produced a result: sub-agent results and tools that ran
ResultCalls(a) == FoldedTasks(a) \cup a.executed

\* C15: tool calls are dispatched one after the other and each result is in the
\* context before the next call begins: the result Messages in the context are
\* those of the calls that have produced a result, in the order of the calls
C15_ResultsInCallOrder ==
    \A k \in 1..Len(agents) :
        LET a == agents[k]
            rank(j) == Cardinality({i \in ResultCalls(a) : i <= j})
        IN  a.response # <<>> =>
                /\ Len(DispatchMessages(a)) = Cardinality(ResultCalls(a))
                /\ \A j \in FoldedTasks(a) :
                       DispatchMessages(a)[rank(j)].tool_results[1].task
                           = a.response[1].tool_calls[j].params.task

\* C16: on a fresh agent, once the reminders are injected and the user message
\* is appended, the context is the environment reminder, the user message, the
\* todo reminder, in this order, and no other reminder is added
C16_RemindersWrapUserMessage ==
    \A k \in 1..Len(agents) :
        LET a == agents[k]
        IN  (a.msgs0 = <<>> /\ a.pc = "loop" /\ Last(a.trace) = "REMINDER_INJECT") =>
                a.messages = <<Message("system", StartReminder, <<>>),
                               Message("user", a.user_input, <<>>),
                               Message("system", EndReminder, <<>>)>>

\* C18: a sub-agent's todo list starts empty and changes only by its own todo
\* writes, which store the list it already has: it is never what another agent
\* or an earlier session persisted
C18_SubAgentTodoIsolated ==
    \A k \in 2..Len(agents) :
        /\ agents[k].todo0 = <<>>
        /\ agents[k].todo_list = agents[k].todo0

\* C19: a sub-agent has its parent's depth plus one, and when it makes its
\* first processing call the user Messages of its context are the task
\* description, once
C19_SubAgentContext ==
    \A k \in 2..Len(agents) :
        LET task == CurrentCall(agents[k - 1]).params.task
        IN  /\ agents[k].depth = agents[k - 1].depth + 1
            /\ agents[k].user_input = task
            /\ (agents[k].pc = "model" /\ agents[k].compressed = "unset") =>
                   UserMessages(agents[k]) = <<Message("user", task, <<>>)>>

-----------------------------------------------------------------------------
(* Specification SpecCompact: _compact_context applied to any context *)

\* compactions applied in a row
MaxCompactions == 2

Roles == {"user", "assistant", "system"}
MessageInputs == {Message(r, c, <<>>) : r \in Roles, c \in {"fix bug", "long paste"}}

InitCompact ==
    /\ \E msgs \in SeqsUpTo(MessageInputs, MaxMsgs) :
          agents = <<[NewAgent EXCEPT !.pc = "compact", !.messages = msgs,
                                      !.msgs0 = msgs]>>
    /\ store = [f \in Filenames |-> NoFile]
    /\ dir_exists = FALSE
    /\ clock = FirstSecond
    /\ calls = 0

\* _compact_context, whatever the compaction call returns
CompactAgain ==
    /\ Top.pc = "compact"
    /\ Len(Top.trace) < MaxCompactions
    /\ \E compressed \in {"compressed", NoneVal} :
          agents' = Put(Step(
              [CallApi(Top, "compaction", CompactionModel)
                  EXCEPT !.messages = CompactContext(@, compressed),
                         !.compressed = compressed,
                         !.current_model = CompactionModel],
              "COMPACT"))
    /\ UNCHANGED <<store, dir_exists, clock, calls>>

NextCompact == CompactAgain

SpecCompact == InitCompact /\ [][NextCompact]_vars

\* C6: after a compaction, of any message sequence, the context holds exactly
\* one Message and its role is system (its content is the compaction call's
\* text when the call succeeded); the same is true after compacting again with
\* no message added in between.
C6_CompactionLeavesOneSystemMessage ==
    \A k \in 1..Len(agents) :
        Did(agents[k], "COMPACT") =>
            /\ Len(agents[k].messages) = 1
            /\ agents[k].messages[1].role = "system"
            /\ agents[k].compressed # NoneVal
                  => agents[k].messages[1].content = agents[k].compressed

\* C6 witness: a three-message context, compacted twice with success
C6_Witness ==
    /\ Len(agents[1].msgs0) = 3
    /\ agents[1].msgs0[3].role = "assistant"
    /\ agents[1].trace = <<"COMPACT", "COMPACT">>
    /\ agents[1].compressed = "compressed"

-----------------------------------------------------------------------------
(* Specification SpecTodo: the todo synchronizer on any store *)

\* saves and loads applied in a row
MaxTodoOps == 3

TodoLists ==
    {DecodeTodos(d) :
        d \in SeqsUpTo([description : Descriptions, completed : {"true", "false"}],
                       MaxTodos)}

\* snapshots found in the store: written by this program, or by another
\* writer that left out "completed"
SnapshotInputs ==
    {NoFile,
     JsonFile(<<>>),
     JsonFile(<<[description |-> "write tests", completed |-> "absent"]>>),
     JsonFile(<<[description |-> "fix lint", completed |-> "true"],
                [description |-> "write tests", completed |-> "false"]>>)}

InitTodo ==
    /\ \E todos \in TodoLists :
          agents = <<[NewAgent EXCEPT !.pc = "todo", !.todo_list = todos]>>
    /\ \E older \in SnapshotInputs, same \in SnapshotInputs :
          store = [f \in Filenames |->
                      IF f = StrfTime(FirstSecond - 1) THEN older
                      ELSE IF f = StrfTime(FirstSecond) THEN same
                      ELSE NoFile]
    /\ dir_exists \in BOOLEAN
    /\ (\E f \in Filenames : store[f].exists) => dir_exists
    /\ clock = FirstSecond
    /\ calls = 0

\* _update_todo_json at datetime.now(); todo0 keeps the list that was saved
TodoSave ==
    /\ Top.pc = "todo"
    /\ Len(Top.trace) < MaxTodoOps
    /\ \E now \in clock..(FirstSecond + MaxTicks) :
          /\ clock' = now
          /\ store' = UpdateTodoJson(Top.todo_list, store, now)
    /\ dir_exists' = TRUE
    /\ agents' = Put(Step([Top EXCEPT !.todo0 = Top.todo_list], "SAVE"))
    /\ UNCHANGED calls

\* _load_todo_from_json and the assignment of main_loop lines 138-140
TodoLoad ==
    /\ Top.pc = "todo"
    /\ Len(Top.trace) < MaxTodoOps
    /\ LET got == LoadTodoFromJson(dir_exists, store)
       IN  agents' = Put(Step(
               IF got.raised THEN [Top EXCEPT !.pc = "raised"]
               ELSE [Top EXCEPT !.loaded = got.value,
                                !.todo_list = IF got.value # <<>> THEN got.value ELSE @],
               "LOAD"))
    /\ UNCHANGED <<store, dir_exists, clock, calls>>

NextTodo == TodoSave \/ TodoLoad

SpecTodo == InitTodo /\ [][NextTodo]_vars

\* lexicographic order of two file names
C8_LexLess(a, b) ==
    \E i \in 1..Len(a) : a[i] < b[i] /\ \A j \in 1..(i - 1) : a[j] = b[j]

\* C8: load returns the decoded contents of the snapshot whose file name is
\* lexicographically greatest among the snapshots present (ids 0,1,2,.. by
\* position, a missing "completed" read as false), and the empty sequence,
\* without error, when there is no snapshot or no directory.
C8_LoadReturnsGreatestSnapshot ==
    \A k \in 1..Len(agents) :
        (agents[k].trace # <<>> /\ Last(agents[k].trace) = "LOAD") =>
            /\ agents[k].pc # "raised"
            /\ IF ~dir_exists \/ \A f \in Filenames : ~store[f].exists
               THEN agents[k].loaded = <<>>
               ELSE \E f \in Filenames :
                      /\ store[f].exists
                      /\ \A g \in Filenames : store[g].exists => ~C8_LexLess(f, g)
                      /\ Len(agents[k].loaded) = Len(store[f].data)
                      /\ \A i \in 1..Len(store[f].data) :
                            /\ agents[k].loaded[i].id = i - 1
                            /\ agents[k].loaded[i].description
                                  = store[f].data[i].description
                            /\ agents[k].loaded[i].completed
                                  = (store[f].data[i].completed = "true")

\* C8 witness: two snapshots with different contents are present, and the load
\* returned the later one, whose item has no "completed"
C8_Witness ==
    /\ agents[1].trace = <<"LOAD">>
    /\ Len(store[StrfTime(FirstSecond - 1)].data) = 2
    /\ store[StrfTime(FirstSecond)].exists
    /\ agents[1].loaded = <<TodoItem(0, "write tests", FALSE)>>

C17_ReloadReplacesList ==
    \A k \in 1..Len(agents) :
        LET a == agents[k]
        IN  (/\ a.pc = "todo"
             /\ a.trace # <<>> /\ Last(a.trace) = "LOAD"
             /\ ListDir(store) # {}) =>
                a.todo_list = LoadTodoFromJson(dir_exists, store).value

\* C20: saves are append-only: every save adds exactly one snapshot and leaves
\* the snapshots that were there as they were, also when two saves fall
\* within the same second
C20_SavesAppendOnly ==
    [][(/\ Len(Top'.trace) = Len(Top.trace) + 1
        /\ Last(Top'.trace) \in {"SAVE", "DISPATCH_TODOWRITE"}) =>
           /\ Cardinality(ListDir(store')) = Cardinality(ListDir(store)) + 1
           /\ \A f \in ListDir(store) : store'[f] = store[f]]_vars

\* C21: a most recent snapshot that is missing or cannot be decoded (content
\* that is not JSON, or an entry without its description) counts as no todos:
\* the load yields the empty sequence, the in-memory list stays as it was, and
\* the loop goes on to the model call instead of ending the run with an error
C21_BadSnapshotIsNoTodos ==
    \A k \in 1..Len(agents) :
        LET a == agents[k]
            latest == store[LastOfSorted(ListDir(store))]
            bad == \/ ~dir_exists
                   \/ ListDir(store) = {}
                   \/ ~latest.valid
                   \/ \E i \in 1..Len(latest.data) :
                          latest.data[i].description = Absent
        IN  (a.trace # <<>> /\ Last(a.trace) = "TODO_SYNC" /\ bad) =>
                /\ a.pc = "model"
                /\ a.loaded = <<>>
                /\ a.todo_list = a.todo0

====
